---- MODULE Spec2Model ----
(***************************************************************************)
(* Model of the Telegram Docker VM manager: the command handlers of        *)
(* bot.py, the registry of config_manager.py and the runtime adapter of    *)
(* docker_handler.py.                                                      *)
(*                                                                         *)
(* A handler invocation is a task that advances from one await to the      *)
(* next; the statements between two awaits form one step.  A call that     *)
(* bot.py hands to a worker (run_in_executor) is modelled as the callee's  *)
(* body run by that worker; the body's own awaits are steps as well.  A    *)
(* dispatch that yields nothing usable has the same effect on registry and *)
(* runtime as a callee that fails before its first runtime call, which     *)
(* the model contains.  A runtime call fails when there is no client or    *)
(* when the container is gone; containers can be removed on the host.      *)
(*                                                                         *)
(* Spec runs the handlers one at a time, the way the application built at  *)
(* bot.py:467 dispatches updates.  SpecConc lets MaxTasks handlers be in   *)
(* flight together and interleave at their awaits.                         *)
(***************************************************************************)
EXTENDS Integers, Sequences, FiniteSets, TLC

\* ---------------------------------------------------------------- bounds
NumUsers == 2
MaxContainers == 2
MaxTasks == 2
MaxStarted == 3

Users == 1..NumUsers
ADMIN_ID == 1
Ids == 1..MaxContainers
Slots == 1..MaxTasks

\* readiness ceiling of create_container
max_attempts == 10

VARIABLES
    maintenance_mode,   \* settings.maintenance_mode
    registry,           \* rows of table containers
    runtime,            \* containers known to the Docker daemon
    nextId,             \* next container id the daemon hands out
    client,             \* TRUE iff docker_handler.client is not None
    tasks,              \* handler invocations in flight, by slot
    reply,              \* the final answer sent by the latest step, if it sent one
    started,            \* handlers dispatched so far (counted by SpecConc only)
    tpc,                \* position of the start_web_ssh_tunnel call under study
    poll,               \* passes of its polling loop so far (i)
    log,                \* the tunnel log as the latest poll read it
    result,             \* what start_web_ssh_tunnel returned, once it has
    cloudflared,        \* the cloudflared processes alive, by the call that started them
    calls,              \* calls of start_web_ssh_tunnel so far
    installed,          \* the tools that the latest call found in the container
    ttyd_running,       \* TRUE iff a ttyd process runs in the container
    sample,             \* the stats sample the daemon handed to get_container_stats
    stats,              \* what get_container_stats returned for it
    settings,           \* row 1 of table settings: default_ram, default_cpu, gpu_enabled
    allowed_users,      \* plan_id of each user in table allowed_users, 0 for no row
    applied,            \* limits and plan_id that the latest create applied
    shown,              \* what web_terminal told the user about the latest call
    tunnel_pc,          \* position of each of two overlapping start_web_ssh_tunnel calls
    tunnel_i,           \* passes of the polling loop of each of them (i)
    alive,              \* cloudflared processes alive, by the call that started them
    logfile,            \* /tmp/cloudflared.log: the processes whose URL it holds
    returned            \* what each of the two calls returned

\* the variables of the handlers
hvars == <<maintenance_mode, registry, runtime, nextId, client, tasks, reply, started>>

\* the variables of start_web_ssh_tunnel
uvars == <<tpc, poll, log, result, cloudflared, calls, installed, ttyd_running>>

\* the variables of get_container_stats
svars == <<sample, stats>>

\* what a handler step leaves alone
\* the variables of the plans and limits
pvars == <<settings, allowed_users, applied>>

fvars == <<shown>>

ovars == <<tunnel_pc, tunnel_i, alive, logfile, returned>>

tvars == <<uvars, svars, pvars, fvars, ovars>>

vars == <<hvars, uvars, svars, pvars, fvars, ovars>>

\* ------------------------------------------------------------- registry
\* a Python value handed to sqlite3: a str (its characters) or an int
PyStr(text) == [type |-> "str", text |-> text]

PyInt(num) == [type |-> "int", num |-> num]

DigitChars == <<"0", "1", "2", "3", "4", "5", "6", "7", "8", "9">>

DigitValue(ch) == (CHOOSE i \in 1..10 : DigitChars[i] = ch) - 1

\* str(n) of a natural number
RECURSIVE ToDigits(_)
ToDigits(n) ==
    IF n < 10 THEN <<DigitChars[n + 1]>>
    ELSE Append(ToDigits(n \div 10), DigitChars[(n % 10) + 1])

LooksLikeInteger(text) ==
    /\ text # <<>>
    /\ \A i \in 1..Len(text) : \E d \in 1..10 : DigitChars[d] = text[i]

RECURSIVE ParseInt(_)
ParseInt(text) ==
    IF text = <<>> THEN 0
    ELSE 10 * ParseInt(SubSeq(text, 1, Len(text) - 1)) + DigitValue(text[Len(text)])

\* config_manager.py lines 43 and 45: ssh_port and plan_id are INTEGER columns,
\* and SQLite stores a text that is a well-formed integer in such a column as
\* an integer; the SELECT gives back what is stored
IntegerAffinity(v) ==
    IF v.type = "str" /\ LooksLikeInteger(v.text) THEN PyInt(ParseInt(v.text)) ELSE v

NoRow(user_id) ==
    [user_id |-> user_id, container_id |-> 0, container_name |-> 0,
     ssh_port |-> PyInt(0), status |-> "none", plan_id |-> PyInt(0)]

get_user_container(reg, user_id) ==
    IF \E r \in reg : r.user_id = user_id
    THEN CHOOSE r \in reg : r.user_id = user_id
    ELSE NoRow(user_id)

\* the row that the INSERT of lines 122-125 stores
StoredRow(user_id, container_id, container_name, ssh_port, status, plan_id) ==
    [user_id |-> user_id, container_id |-> container_id,
     container_name |-> container_name, ssh_port |-> IntegerAffinity(ssh_port),
     status |-> status, plan_id |-> IntegerAffinity(plan_id)]

register_container_noreplace(reg, user_id, container_id, container_name, ssh_port, status, plan_id) ==
    reg \cup {StoredRow(user_id, container_id, container_name, ssh_port, status,
                        plan_id)}

register_container(reg, user_id, container_id, container_name, ssh_port, status, plan_id) ==
    {r \in reg : r.user_id # user_id}
        \cup {StoredRow(user_id, container_id, container_name, ssh_port, status,
                        plan_id)}

update_container_status(reg, user_id, status) ==
    {IF r.user_id = user_id THEN [r EXCEPT !.status = status] ELSE r : r \in reg}

delete_container(reg, user_id) == {r \in reg : r.user_id # user_id}

RECURSIVE RowsFrom(_, _)
RowsFrom(reg, u) ==
    IF u > NumUsers THEN <<>>
    ELSE (IF \E r \in reg : r.user_id = u
          THEN <<CHOOSE r \in reg : r.user_id = u>> ELSE <<>>) \o RowsFrom(reg, u + 1)

get_all_containers(reg) == RowsFrom(reg, 1)

\* -------------------------------------------------------------- runtime
Exists(rt, id) == \E c \in rt : c.id = id
ById(rt, id) == CHOOSE c \in rt : c.id = id
SetStatus(rt, id, s) == {IF c.id = id THEN [c EXCEPT !.status = s] ELSE c : c \in rt}
Remove(rt, id) == {c \in rt : c.id # id}
RemoveByNameAll(rt, name) == {}

RemoveByName(rt, name) == {c \in rt : c.name # name}

\* what is installed in a container: ttyd, and cloudflared as the real
\* binary, as the script that only prints a message and exits 1, or not at all
NoTools == [ttyd |-> FALSE, cloudflared |-> "none"]
SetTools(rt, id, tools) ==
    {IF c.id = id THEN [c EXCEPT !.ttyd = tools.ttyd, !.cloudflared = tools.cloudflared]
     ELSE c : c \in rt}

\* ---------------------------------------------------------------- tasks
Idle == [op |-> "idle", pc |-> "idle", caller |-> 0, target |-> 0, cid |-> 0,
         status |-> "none", attempt |-> 0, seen |-> FALSE, success |-> FALSE,
         list |-> <<>>, count |-> 0]

NoReply == [op |-> "none", caller |-> 0, target |-> 0, outcome |-> "none",
            detail |-> "none", count |-> 0]

NewTask(op, pc, caller, target) ==
    [Idle EXCEPT !.op = op, !.pc = pc, !.caller = caller, !.target = target]

Answer(t, outcome, detail) ==
    [op |-> t.op, caller |-> t.caller, target |-> t.target, outcome |-> outcome,
     detail |-> detail, count |-> t.count]

\* the handler in slot s returns after sending its last answer
Finish(s, t, outcome, detail) ==
    /\ tasks' = [tasks EXCEPT ![s] = Idle]
    /\ reply' = Answer(t, outcome, detail)

\* the handler in slot s suspends at its next await
Go(s, t) ==
    /\ tasks' = [tasks EXCEPT ![s] = t]
    /\ reply' = NoReply

\* a new update is dispatched to slot s
CanBegin(conc, s) ==
    /\ reply = NoReply
    /\ tasks[s] = Idle
    /\ \A q \in Slots : q < s => tasks[q] # Idle
    /\ IF conc
       THEN started < MaxStarted /\ started' = started + 1
       ELSE (\A q \in Slots : tasks[q] = Idle) /\ UNCHANGED started

\* two calls of start_web_ssh_tunnel for one container that overlap
TunnelCalls == {1, 2}

NotReturned == [kind |-> "none", of |-> 0]

NoResult == [kind |-> "none", url |-> <<>>, tail |-> <<>>, cut |-> 0]

NoSample == [total_usage |-> 0, pre_total_usage |-> 0, system_cpu_usage |-> 0,
             pre_system_cpu_usage |-> 0, online_cpus |-> 1,
             memory_usage |-> 0, memory_limit |-> 1]

NoStats == [kind |-> "none", cpu_percent |-> 0]

\* config_manager.py lines 31-34: the settings row that init_db inserts
DefaultSettings == [gpu_enabled |-> FALSE, default_ram |-> "2g", default_cpu |-> 2]

NoApplied ==
    [kind |-> "none", user_id |-> 0, assigned |-> 0, mem_limit |-> "none",
     cpus |-> 0, plan_id |-> PyInt(0)]

Init ==
    /\ maintenance_mode = FALSE
    /\ registry = {}
    /\ runtime = {}
    /\ nextId = 1
    /\ client \in BOOLEAN
    /\ tasks = [s \in Slots |-> Idle]
    /\ reply = NoReply
    /\ started = 0
    /\ tpc = "idle"
    /\ poll = 0
    /\ log = <<>>
    /\ result = NoResult
    /\ cloudflared = {}
    /\ calls = 0
    /\ installed = NoTools
    /\ ttyd_running = FALSE
    /\ sample = NoSample
    /\ stats = NoStats
    /\ settings = DefaultSettings
    /\ allowed_users = [u \in Users |-> 0]
    /\ applied = NoApplied
    /\ shown = "none"
    /\ tunnel_pc = [c \in TunnelCalls |-> "idle"]
    /\ tunnel_i = [c \in TunnelCalls |-> 0]
    /\ alive = {}
    /\ logfile = {}
    /\ returned = [c \in TunnelCalls |-> NotReturned]

\* ------------------------------------------------- docker_handler.py
Upper(status) ==
    CASE status = "running" -> "RUNNING"
      [] status = "exited" -> "EXITED"
      [] status = "created" -> "CREATED"
      [] OTHER -> "UNKNOWN"

\* The three calls below answer whether the call went through: False without
\* a client and when containers.get raises because the container is gone.
stop_container_always(cl, rt, container_id) == TRUE

stop_container(cl, rt, container_id) == cl /\ Exists(rt, container_id)

start_container_blind(cl, rt, container_id) == cl

start_container(cl, rt, container_id) == cl /\ Exists(rt, container_id)

remove_container(cl, rt, container_id) == cl /\ Exists(rt, container_id)

get_container_status(cl, rt, container_id) ==
    IF ~cl THEN "UNKNOWN"
    ELSE IF ~Exists(rt, container_id) THEN "DESTROYED"
    ELSE Upper(ById(rt, container_id).status)

Stopped(rt, id) ==
    {IF c.id = id /\ c.status = "running" THEN [c EXCEPT !.status = "exited"] ELSE c : c \in rt}

Started(rt, id) == SetStatus(rt, id, "running")

\* start_web_ssh_tunnel as the handlers see it, by the text it returns:
\*   "no_client"   Docker client not initialized (line 343)
\*   "error"       Error establishing web terminal: ... (line 434)
\*   "unavailable" Web terminal not available: ... (lines 350, 354)
\*   "failure"     Failed to establish web terminal tunnel. ... (line 430)
\*   "url"         the URL of the tunnel (line 400)
TunnelResults(cl, rt, container_id) ==
    IF ~cl THEN {"no_client"}
    ELSE IF ~Exists(rt, container_id) \/ ById(rt, container_id).status # "running"
    THEN {"error"}
    ELSE LET c == ById(rt, container_id) IN
         IF ~c.ttyd \/ c.cloudflared = "none" THEN {"unavailable"}
         ELSE IF c.cloudflared = "stub" THEN {"failure"}
         ELSE {"url", "failure"}

\* --------------------------------------------------- bot.py: create_vm
MaintenanceNeverBlocks(mm, user_id) == FALSE

MaintenanceBlocks(mm, user_id) == mm /\ user_id # ADMIN_ID

HasVmNever(existing) == FALSE

HasVm(existing) == existing.status # "none"

CreateBegin(conc, s, u) ==
    /\ CanBegin(conc, s)
    /\ LET t == NewTask("create", "c_existing", u, u) IN
       IF MaintenanceBlocks(maintenance_mode, u)
       THEN Finish(s, t, "MaintenanceMode", "none")
       ELSE Go(s, t)
    /\ UNCHANGED <<maintenance_mode, registry, runtime, nextId, client, tvars>>

CreateCheckExisting(s) ==
    /\ tasks[s].pc = "c_existing"
    /\ LET t == tasks[s]
           existing == get_user_container(registry, t.caller) IN
       IF HasVm(existing)
       THEN Finish(s, t, "AlreadyExists", "none")
       ELSE Go(s, [t EXCEPT !.pc = "cc_run"])
    /\ UNCHANGED <<maintenance_mode, registry, runtime, nextId, client, started, tvars>>

\* ---------------------------------- docker_handler.py: create_container
\* container_name = f"vm_user_{user_id}": the user's id stands for the name
ContainerName(user_id) == user_id

\* lines 270-271: container.ports['22/tcp'][0]['HostPort'], the host port that
\* the daemon bound, as the text the SDK reports; the container's number
\* stands for the port number
HostPort(container_id) == PyStr(ToDigits(container_id))

\* lines 61-105: client check, cleanup of an old container of that name, run
CreateContainerRun(s) ==
    /\ tasks[s].pc = "cc_run"
    /\ LET t == tasks[s]
           name == ContainerName(t.caller) IN
       \/ /\ ~client
          /\ Finish(s, t, "Failed", "ClientNotInitialized")
          /\ UNCHANGED <<runtime, nextId>>
       \/ /\ client                      \* containers.run raises (no image)
          /\ runtime' = RemoveByName(runtime, name)
          /\ Finish(s, t, "Failed", "RuntimeError")
          /\ UNCHANGED nextId
       \/ /\ client
          /\ nextId <= MaxContainers
          /\ \E st \in {"created", "running"} :
                runtime' = RemoveByName(runtime, name)
                              \cup {[id |-> nextId, name |-> name, status |-> st,
                                     ttyd |-> FALSE, cloudflared |-> "none"]}
          /\ nextId' = nextId + 1
          /\ Go(s, [t EXCEPT !.pc = "cc_poll", !.cid = nextId])
    /\ UNCHANGED <<maintenance_mode, registry, client, started, tvars>>

\* line 109: while attempt < max_attempts
LoopContinues(attempt) == attempt < max_attempts

TimedOutLate(attempt) == attempt > max_attempts

\* line 149: if attempt >= max_attempts
TimedOut(attempt) == attempt >= max_attempts

\* How the two steps that set the password can end.  "fail" is a non-zero
\* exit code (for direct: chpasswd fails inside the shell command, whose own
\* exit code is not read), "raise" an exception of exec_run.
\*   hash    openssl passwd, then usermod -p (lines 117-133)
\*   direct  echo devuser:password | chpasswd (lines 137-138)
CredentialSteps == [hash : {"ok", "fail", "raise"}, direct : {"ok", "fail", "raise"}]

\* line 134: the handler that runs the direct step is entered from a raise
DirectAttempted(o) == o.hash # "ok"

\* line 144: an exception of the direct step leaves the inner handler and
\* is taken for a container that is not ready
PollRetries(o) == DirectAttempted(o) /\ o.direct = "raise"

\* lines 109-147: one pass of the readiness loop
CreatePoll(s) ==
    /\ tasks[s].pc = "cc_poll"
    /\ LoopContinues(tasks[s].attempt)
    /\ LET t == tasks[s]
           running == Exists(runtime, t.cid) /\ ById(runtime, t.cid).status = "running" IN
       \/ /\ running
          /\ \E o \in CredentialSteps :
                IF PollRetries(o)
                THEN Go(s, [t EXCEPT !.attempt = @ + 1, !.seen = TRUE])
                ELSE Go(s, [t EXCEPT !.pc = "cc_bootstrap", !.seen = TRUE])   \* break
       \/ /\ ~running                    \* not running yet, or reload raises
          /\ Go(s, [t EXCEPT !.attempt = @ + 1])
    /\ UNCHANGED <<maintenance_mode, registry, runtime, nextId, client, started, tvars>>

\* lines 149-152: the loop has run out of attempts
CreateLoopExit(s) ==
    /\ tasks[s].pc = "cc_poll"
    /\ ~LoopContinues(tasks[s].attempt)
    /\ LET t == tasks[s] IN
       IF TimedOut(t.attempt)
       THEN IF Exists(runtime, t.cid)
            THEN /\ runtime' = Remove(runtime, t.cid)
                 /\ Finish(s, t, "Failed", "StartupTimeout")
            ELSE /\ UNCHANGED runtime      \* container.remove raises NotFound
                 /\ Finish(s, t, "Failed", "RuntimeError")
       ELSE /\ UNCHANGED runtime
            /\ Go(s, [t EXCEPT !.pc = "cc_bootstrap"])
    /\ UNCHANGED <<maintenance_mode, registry, nextId, client, started, tvars>>

\* How the exec calls of the tool installation can end.  "fail" is a
\* non-zero exit code, "raise" an exception of exec_run.
\*   update  apt-get update, three tries (lines 161-173)
\*   deps    curl wget ca-certificates, then curl alone (lines 176-185)
\*   ttyd    from the repository, then the binary download (lines 189-202)
\*   cf      cloudflared by apt, then by direct download (lines 209-233)
\*   dummy   the stub script written when neither installed it (line 237)
\*   rescue  the stub script written by the handler of line 243 (line 246)
\*   verify  which ttyd, which cloudflared (lines 252-262)
BootstrapOutcomes ==
    [update : {"ok", "fail", "raise"}, deps : {"ok", "fail", "raise"},
     ttyd : {"ok", "fail", "raise"}, cf : {"apt", "download", "fail", "raise"},
     dummy : {"ok", "raise"}, rescue : {"ok", "raise"},
     verify : {"ok", "fail", "raise"}]

\* lines 156-266: what is installed when the block is left, normally or
\* through the handler of line 265
InstallTools(o) ==
    IF o.update = "raise" \/ o.deps # "ok" THEN NoTools
    ELSE IF o.ttyd = "raise" THEN NoTools
    ELSE LET ttyd == (o.ttyd = "ok")
             stub == IF o.cf = "fail" /\ o.dummy = "ok" THEN "stub"
                     ELSE IF o.rescue = "ok" THEN "stub" ELSE "none"
         IN  [ttyd |-> ttyd,
              cloudflared |-> IF o.cf \in {"apt", "download"} THEN "real" ELSE stub]

\* whether the block is left through the handler of line 265: an exec call
\* raised outside the inner try, or curl could not be installed (line 183)
Raised(o) ==
    \/ o.update = "raise"
    \/ o.deps # "ok"
    \/ o.ttyd = "raise"
    \/ (o.cf = "fail" /\ o.dummy = "raise" /\ o.rescue = "raise")
    \/ (o.cf = "raise" /\ o.rescue = "raise")
    \/ o.verify = "raise"

\* the ways the installation can end
BootstrapEnds ==
    {[tools |-> InstallTools(o), raised |-> Raised(o)] : o \in BootstrapOutcomes}

PropagatesRaised(raised) == raised

\* line 265: except Exception swallows every failure of the installation
Propagates(raised) == FALSE

\* lines 154-278: tool installation, then the port is read back from the
\* reloaded container
CreateBootstrap(s) ==
    /\ tasks[s].pc = "cc_bootstrap"
    /\ LET t == tasks[s]
           running == Exists(runtime, t.cid) /\ ById(runtime, t.cid).status = "running" IN
       IF running
       THEN \E e \in BootstrapEnds :
               /\ runtime' = SetTools(runtime, t.cid, e.tools)
               /\ IF Propagates(e.raised)
                  THEN Finish(s, t, "Failed", "RuntimeError")
                  ELSE Go(s, [t EXCEPT !.pc = "c_register"])
       ELSE /\ UNCHANGED runtime          \* reload raises or no port bound
            /\ Finish(s, t, "Failed", "RuntimeError")
    /\ UNCHANGED <<maintenance_mode, registry, nextId, client, started, tvars>>

\* bot.py lines 85-91
CreateRegister(s) ==
    /\ tasks[s].pc = "c_register"
    /\ registry' = register_container(registry, tasks[s].caller, tasks[s].cid,
                                      ContainerName(tasks[s].caller),
                                      HostPort(tasks[s].cid), "UP", PyInt(1))
    /\ Go(s, [tasks[s] EXCEPT !.pc = "c_tunnel"])
    /\ UNCHANGED <<maintenance_mode, runtime, nextId, client, started, tvars>>

CreatedMessageReady(web_ssh_url) == [outcome |-> "Created", detail |-> "url"]

\* bot.py lines 97-105: one message for every result of the tunnel step, with
\* web_ssh_url put in as the target of its link
CreatedMessage(web_ssh_url) == [outcome |-> "Created", detail |-> web_ssh_url]

\* bot.py lines 93-106: the tunnel step and the final message
CreateTunnel(s) ==
    /\ tasks[s].pc = "c_tunnel"
    /\ \E web_ssh_url \in TunnelResults(client, runtime, tasks[s].cid) :
         LET msg == CreatedMessage(web_ssh_url) IN
         Finish(s, tasks[s], msg.outcome, msg.detail)
    /\ UNCHANGED <<maintenance_mode, registry, runtime, nextId, client, started, tvars>>

\* ---------------------------------------------------- bot.py: status_vm
StatusBegin(conc, s, u) ==
    /\ CanBegin(conc, s)
    /\ LET t == NewTask("status", "s_inspect", u, u)
           container_data == get_user_container(registry, u) IN
       IF ~HasVm(container_data)
       THEN Finish(s, t, "NotFound", "none")
       ELSE Go(s, [t EXCEPT !.cid = container_data.container_id,
                            !.status = container_data.status])
    /\ UNCHANGED <<maintenance_mode, registry, runtime, nextId, client, tvars>>

StatusInspect(s) ==
    /\ tasks[s].pc = "s_inspect"
    /\ LET t == tasks[s]
           status == get_container_status(client, runtime, t.cid) IN
       IF status # t.status
       THEN Go(s, [t EXCEPT !.pc = "s_update", !.status = status])
       ELSE Finish(s, t, "Status", status)
    /\ UNCHANGED <<maintenance_mode, registry, runtime, nextId, client, started, tvars>>

StatusUpdate(s) ==
    /\ tasks[s].pc = "s_update"
    /\ registry' = update_container_status(registry, tasks[s].caller, tasks[s].status)
    /\ Finish(s, tasks[s], "Status", tasks[s].status)
    /\ UNCHANGED <<maintenance_mode, runtime, nextId, client, started, tvars>>

\* ----------------------------------------- bot.py: stop_vm, force_stop
StopBegin(conc, s, u, target) ==
    /\ CanBegin(conc, s)
    /\ LET op == IF target = u THEN "stop" ELSE "force_stop"
           t == NewTask(op, "st_stop", u, target)
           container_data == get_user_container(registry, target) IN
       IF op = "force_stop" /\ u # ADMIN_ID
       THEN Finish(s, t, "AccessDenied", "none")
       ELSE IF ~HasVm(container_data)
       THEN Finish(s, t, "NotFound", "none")
       ELSE Go(s, [t EXCEPT !.cid = container_data.container_id])
    /\ UNCHANGED <<maintenance_mode, registry, runtime, nextId, client, tvars>>

StopContainer(s) ==
    /\ tasks[s].pc = "st_stop"
    /\ LET t == tasks[s]
           success == stop_container(client, runtime, t.cid) IN
       IF success
       THEN /\ runtime' = Stopped(runtime, t.cid)
            /\ Go(s, [t EXCEPT !.pc = "st_update"])
       ELSE /\ UNCHANGED runtime
            /\ Finish(s, t, "Failed", "StopFailed")
    /\ UNCHANGED <<maintenance_mode, registry, nextId, client, started, tvars>>

StopUpdate(s) ==
    /\ tasks[s].pc = "st_update"
    /\ registry' = update_container_status(registry, tasks[s].target, "EXITED")
    /\ Finish(s, tasks[s], "Stopped", "none")
    /\ UNCHANGED <<maintenance_mode, runtime, nextId, client, started, tvars>>

\* ------------------------------------------- bot.py: start_vm_command
StartBegin(conc, s, u) ==
    /\ CanBegin(conc, s)
    /\ LET t == NewTask("start", "sv_get", u, u) IN
       IF MaintenanceBlocks(maintenance_mode, u)
       THEN Finish(s, t, "MaintenanceMode", "none")
       ELSE Go(s, t)
    /\ UNCHANGED <<maintenance_mode, registry, runtime, nextId, client, tvars>>

StartGet(s) ==
    /\ tasks[s].pc = "sv_get"
    /\ LET t == tasks[s]
           container_data == get_user_container(registry, t.caller) IN
       IF ~HasVm(container_data)
       THEN Finish(s, t, "NotFound", "none")
       ELSE Go(s, [t EXCEPT !.pc = "sv_start", !.cid = container_data.container_id])
    /\ UNCHANGED <<maintenance_mode, registry, runtime, nextId, client, started, tvars>>

StartContainer(s) ==
    /\ tasks[s].pc = "sv_start"
    /\ LET t == tasks[s]
           success == start_container(client, runtime, t.cid) IN
       IF success
       THEN /\ runtime' = Started(runtime, t.cid)
            /\ Go(s, [t EXCEPT !.pc = "sv_update"])
       ELSE /\ UNCHANGED runtime
            /\ Finish(s, t, "Failed", "StartFailed")
    /\ UNCHANGED <<maintenance_mode, registry, nextId, client, started, tvars>>

StartUpdate(s) ==
    /\ tasks[s].pc = "sv_update"
    /\ registry' = update_container_status(registry, tasks[s].caller, "RUNNING")
    /\ Go(s, [tasks[s] EXCEPT !.pc = "sv_tunnel"])
    /\ UNCHANGED <<maintenance_mode, runtime, nextId, client, started, tvars>>

StartTunnel(s) ==
    /\ tasks[s].pc = "sv_tunnel"
    /\ \E terminal \in TunnelResults(client, runtime, tasks[s].cid) :
         Finish(s, tasks[s], "Started", terminal)
    /\ UNCHANGED <<maintenance_mode, registry, runtime, nextId, client, started, tvars>>

\* ----------------------- bot.py: destroy_vm, force_destroy [user_id]
DestroyBegin(conc, s, u, target) ==
    /\ CanBegin(conc, s)
    /\ LET op == IF target = u THEN "destroy" ELSE "force_destroy"
           t == NewTask(op, "d_remove", u, target)
           container_data == get_user_container(registry, target) IN
       IF op = "force_destroy" /\ u # ADMIN_ID
       THEN Finish(s, t, "AccessDenied", "none")
       ELSE IF ~HasVm(container_data)
       THEN Finish(s, t, "NotFound", "none")
       ELSE Go(s, [t EXCEPT !.cid = container_data.container_id])
    /\ UNCHANGED <<maintenance_mode, registry, runtime, nextId, client, tvars>>

DestroyRemove(s) ==
    /\ tasks[s].pc = "d_remove"
    /\ LET t == tasks[s]
           success == remove_container(client, runtime, t.cid) IN
       /\ runtime' = IF success THEN Remove(runtime, t.cid) ELSE runtime
       /\ Go(s, [t EXCEPT !.pc = "d_delete", !.success = success])
    /\ UNCHANGED <<maintenance_mode, registry, nextId, client, started, tvars>>

\* the registry after the two branches on success (lines 227-232, 430-435)
DeleteOnlyOnSuccess(reg, user_id, success) ==
    IF success THEN delete_container(reg, user_id) ELSE reg

DeleteAfterRemove(reg, user_id, success) ==
    IF success THEN delete_container(reg, user_id) ELSE delete_container(reg, user_id)

DestroyDelete(s) ==
    /\ tasks[s].pc = "d_delete"
    /\ registry' = DeleteAfterRemove(registry, tasks[s].target, tasks[s].success)
    /\ Finish(s, tasks[s], "Destroyed",
              IF tasks[s].success THEN "removed" ELSE "removal_failed")
    /\ UNCHANGED <<maintenance_mode, runtime, nextId, client, started, tvars>>

\* ------------------------------------------------------ bot.py: exec_cmd
ExecBegin(conc, s, u) ==
    /\ CanBegin(conc, s)
    /\ LET t == NewTask("exec", "e_exec", u, u)
           container_data == get_user_container(registry, u) IN
       IF ~HasVm(container_data)
       THEN Finish(s, t, "NotFound", "none")
       ELSE Go(s, [t EXCEPT !.cid = container_data.container_id])
    /\ UNCHANGED <<maintenance_mode, registry, runtime, nextId, client, tvars>>

\* the texts that a command prints: some output, or the very words of line
\* 331 (/exec echo -n Docker client not initialized)
CommandOutputs == {"output", "ClientNotInitialized"}

\* docker_handler.exec_command, lines 329-339: the texts it can return
exec_command(cl, rt, container_id) ==
    IF ~cl THEN {"ClientNotInitialized"}
    ELSE IF Exists(rt, container_id) /\ ById(rt, container_id).status = "running"
    THEN CommandOutputs
    ELSE {"Error"}                     \* containers.get or exec_run raises

\* bot.py lines 250-254
ExecCommand(s) ==
    /\ tasks[s].pc = "e_exec"
    /\ \E output \in exec_command(client, runtime, tasks[s].cid) :
          Finish(s, tasks[s], "Output", output)
    /\ UNCHANGED <<maintenance_mode, registry, runtime, nextId, client, started, tvars>>

\* -------------------------------------------------- bot.py: web_terminal
WebTerminalBegin(conc, s, u) ==
    /\ CanBegin(conc, s)
    /\ LET t == NewTask("web_terminal", "w_tunnel", u, u)
           container_data == get_user_container(registry, u) IN
       IF ~HasVm(container_data)
       THEN Finish(s, t, "NotFound", "none")
       ELSE Go(s, [t EXCEPT !.cid = container_data.container_id])
    /\ UNCHANGED <<maintenance_mode, registry, runtime, nextId, client, tvars>>

WebTerminalTunnel(s) ==
    /\ tasks[s].pc = "w_tunnel"
    /\ \E terminal \in TunnelResults(client, runtime, tasks[s].cid) :
         Finish(s, tasks[s], "Terminal", terminal)
    /\ UNCHANGED <<maintenance_mode, registry, runtime, nextId, client, started, tvars>>

\* --------------------------------------------------- bot.py: maintenance
RECURSIVE SkipNotRunning(_)
\* the loop passes over rows whose status is not RUNNING without an await
SkipNotRunning(list) ==
    IF list = <<>> \/ Head(list).status = "RUNNING" THEN list
    ELSE SkipNotRunning(Tail(list))

MaintenanceBegin(conc, s, u, value) ==
    /\ CanBegin(conc, s)
    /\ LET t == NewTask("maintenance", "m_list", u, u) IN
       IF u # ADMIN_ID
       THEN /\ Finish(s, t, "AccessDenied", "none")
            /\ UNCHANGED maintenance_mode
       ELSE /\ maintenance_mode' = value
            /\ IF value THEN Go(s, t) ELSE Finish(s, t, "MaintenanceOff", "none")
    /\ UNCHANGED <<registry, runtime, nextId, client, tvars>>

\* continue the bulk stop with the rows that are left
MaintenanceContinue(s, t, rest) ==
    LET list == SkipNotRunning(rest) IN
    IF list = <<>>
    THEN Finish(s, [t EXCEPT !.list = <<>>], "MaintenanceOn", "none")
    ELSE Go(s, [t EXCEPT !.pc = "m_stop", !.list = list])

MaintenanceList(s) ==
    /\ tasks[s].pc = "m_list"
    /\ MaintenanceContinue(s, tasks[s], get_all_containers(registry))
    /\ UNCHANGED <<maintenance_mode, registry, runtime, nextId, client, started, tvars>>

MaintenanceStop(s) ==
    /\ tasks[s].pc = "m_stop"
    /\ LET t == tasks[s]
           c == Head(t.list)
           success == stop_container(client, runtime, c.container_id) IN
       IF success
       THEN /\ runtime' = Stopped(runtime, c.container_id)
            /\ Go(s, [t EXCEPT !.pc = "m_update"])
       ELSE /\ UNCHANGED runtime
            /\ MaintenanceContinue(s, t, Tail(t.list))
    /\ UNCHANGED <<maintenance_mode, registry, nextId, client, started, tvars>>

MaintenanceUpdate(s) ==
    /\ tasks[s].pc = "m_update"
    /\ LET t == tasks[s]
           c == Head(t.list) IN
       /\ registry' = update_container_status(registry, c.user_id, "EXITED")
       /\ MaintenanceContinue(s, [t EXCEPT !.count = @ + 1], Tail(t.list))
    /\ UNCHANGED <<maintenance_mode, runtime, nextId, client, started, tvars>>

\* ------------------------------------------- bot.py: force_destroy all
ForceDestroyAllBegin(conc, s, u) ==
    /\ CanBegin(conc, s)
    /\ LET t == NewTask("force_destroy_all", "fa_list", u, u) IN
       IF u # ADMIN_ID
       THEN Finish(s, t, "AccessDenied", "none")
       ELSE Go(s, t)
    /\ UNCHANGED <<maintenance_mode, registry, runtime, nextId, client, tvars>>

ForceDestroyAllContinue(s, t, rest) ==
    IF rest = <<>>
    THEN Finish(s, [t EXCEPT !.list = <<>>], "DestroyedAll", "none")
    ELSE Go(s, [t EXCEPT !.pc = "fa_remove", !.list = rest])

ForceDestroyAllList(s) ==
    /\ tasks[s].pc = "fa_list"
    /\ ForceDestroyAllContinue(s, tasks[s], get_all_containers(registry))
    /\ UNCHANGED <<maintenance_mode, registry, runtime, nextId, client, started, tvars>>

ForceDestroyAllRemove(s) ==
    /\ tasks[s].pc = "fa_remove"
    /\ LET t == tasks[s]
           c == Head(t.list)
           success == remove_container(client, runtime, c.container_id) IN
       /\ runtime' = IF success THEN Remove(runtime, c.container_id) ELSE runtime
       /\ Go(s, [t EXCEPT !.pc = "fa_delete", !.success = success])
    /\ UNCHANGED <<maintenance_mode, registry, nextId, client, started, tvars>>

CountOnlySuccess(count, success) == IF success THEN count + 1 ELSE count

\* count after one row, lines 410-416
CountAfter(count, success) == IF success THEN count + 1 ELSE count + 1

ForceDestroyAllDelete(s) ==
    /\ tasks[s].pc = "fa_delete"
    /\ LET t == tasks[s]
           c == Head(t.list) IN
       /\ registry' = DeleteAfterRemove(registry, c.user_id, t.success)
       /\ ForceDestroyAllContinue(s, [t EXCEPT !.count = CountAfter(@, t.success)],
                                  Tail(t.list))
    /\ UNCHANGED <<maintenance_mode, runtime, nextId, client, started, tvars>>

\* ------------------------------------------------------ specifications
Step(s) ==
    \/ CreateCheckExisting(s) \/ CreateContainerRun(s) \/ CreatePoll(s)
    \/ CreateLoopExit(s) \/ CreateBootstrap(s) \/ CreateRegister(s) \/ CreateTunnel(s)
    \/ StatusInspect(s) \/ StatusUpdate(s)
    \/ StopContainer(s) \/ StopUpdate(s)
    \/ StartGet(s) \/ StartContainer(s) \/ StartUpdate(s) \/ StartTunnel(s)
    \/ DestroyRemove(s) \/ DestroyDelete(s)
    \/ ExecCommand(s) \/ WebTerminalTunnel(s)
    \/ MaintenanceList(s) \/ MaintenanceStop(s) \/ MaintenanceUpdate(s)
    \/ ForceDestroyAllList(s) \/ ForceDestroyAllRemove(s) \/ ForceDestroyAllDelete(s)

Begin(conc, s) ==
    \E u \in Users :
        \/ CreateBegin(conc, s, u)
        \/ StatusBegin(conc, s, u)
        \/ StartBegin(conc, s, u)
        \/ ExecBegin(conc, s, u)
        \/ WebTerminalBegin(conc, s, u)
        \/ ForceDestroyAllBegin(conc, s, u)
        \/ \E target \in Users : StopBegin(conc, s, u, target)
        \/ \E target \in Users : DestroyBegin(conc, s, u, target)
        \/ \E value \in BOOLEAN : MaintenanceBegin(conc, s, u, value)

\* the daemon brings a created container up
ContainerBoots ==
    /\ \E c \in runtime :
         /\ c.status = "created"
         /\ runtime' = SetStatus(runtime, c.id, "running")
    /\ reply' = NoReply
    /\ UNCHANGED <<maintenance_mode, registry, nextId, client, tasks, started, tvars>>

\* somebody else removes a container (docker rm on the host)
ExternalRemove ==
    /\ \E c \in runtime : runtime' = Remove(runtime, c.id)
    /\ reply' = NoReply
    /\ UNCHANGED <<maintenance_mode, registry, nextId, client, tasks, started, tvars>>

\* the answer has gone out to the chat
Deliver ==
    /\ reply # NoReply
    /\ reply' = NoReply
    /\ UNCHANGED <<maintenance_mode, registry, runtime, nextId, client, tasks, started, tvars>>

\* the bot process is started again between two updates: lines 26-32 of
\* docker_handler.py connect again and leave client set or None; the database
\* file and the containers outlive the process
Restart ==
    /\ \A s \in Slots : tasks[s] = Idle
    /\ reply = NoReply
    /\ client' \in BOOLEAN
    /\ UNCHANGED <<maintenance_mode, registry, runtime, nextId, tasks, reply, started,
                   tvars>>

Next == \/ \E s \in Slots : Begin(FALSE, s) \/ Step(s)
        \/ ContainerBoots
        \/ ExternalRemove
        \/ Deliver
        \/ Restart

NextConc == \/ \E s \in Slots : Begin(TRUE, s) \/ Step(s)
            \/ ContainerBoots
            \/ ExternalRemove
            \/ Deliver
            \/ Restart

Spec == Init /\ [][Next]_vars

SpecConc == Init /\ [][NextConc]_vars

\* ------------------------------ docker_handler.py: start_web_ssh_tunnel
\* The tunnel log is a sequence of tokens, each a stretch of characters:
\*   "S" https://            "T" .trycloudflare.com   "F" .cfargotunnel.com
\*   "C" .cloudflare.com     "w" characters of [\w.-] that hold none of the
\*   three suffixes and not the word cloudflare (abc123, example.org)
\*   "/" characters that are neither blank nor in [\w.-] (a slash, a bar)
\*   "_" ordinary log text: it holds blanks and no https://
MaxLogLen == 7
MaxFileLen == 3
TextWidth == 300

\* line 379
tunnel_max_attempts == 60

\* line 420: log[-500:]
tail_chars == 500

Tok == {"S", "w", "T", "F", "C", "/", "_"}
HostChars == {"w", "T", "F", "C"}
Provider == {"T", "F", "C"}
NonSpace == HostChars \cup {"S", "/"}

Width(tok) ==
    CASE tok = "S" -> 8
      [] tok = "T" -> 18
      [] tok = "F" -> 17
      [] tok = "C" -> 15
      [] tok = "w" -> 6
      [] tok = "/" -> 1
      [] OTHER -> TextWidth

RECURSIVE Chars(_)
Chars(seq) == IF seq = <<>> THEN 0 ELSE Width(Head(seq)) + Chars(Tail(seq))

\* line 387: https://[\w.-]+\.(trycloudflare\.com|cfargotunnel\.com|cloudflare\.com)
ProviderPattern(text) ==
    {m \in (1..Len(text)) \X (1..Len(text)) :
        /\ text[m[1]] = "S"
        /\ m[2] >= m[1] + 2
        /\ \A k \in (m[1] + 1)..(m[2] - 1) : text[k] \in HostChars
        /\ text[m[2]] \in Provider}

\* line 390: https://[^\s]+\.cloudflare\.com
AuthenticatedPattern(text) ==
    {m \in (1..Len(text)) \X (1..Len(text)) :
        /\ text[m[1]] = "S"
        /\ m[2] >= m[1] + 2
        /\ \A k \in (m[1] + 1)..(m[2] - 1) : text[k] \in NonSpace
        /\ text[m[2]] = "C"}

\* line 393: https://[^\s]+
LastResortPattern(text) ==
    {m \in (1..Len(text)) \X (1..Len(text)) :
        /\ text[m[1]] = "S"
        /\ m[2] >= m[1] + 1
        /\ \A k \in (m[1] + 1)..m[2] : text[k] \in NonSpace}

Min(set) == CHOOSE x \in set : \A y \in set : x <= y
Max(set) == CHOOSE x \in set : \A y \in set : x >= y

re_search_rightmost(matches) ==
    LET a == Max({m[1] : m \in matches})
    IN  <<a, Max({m[2] : m \in {n \in matches : n[1] = a}})>>

\* re.search: the leftmost place where the pattern matches, and there the
\* longest match (both quantifiers are greedy)
re_search(matches) ==
    LET a == Min({m[1] : m \in matches})
    IN  <<a, Max({m[2] : m \in {n \in matches : n[1] = a}})>>

\* line 398: url.startswith('https://') and 'cloudflare' in url.lower()
IsCloudflareUrl(url) ==
    /\ url[1] = "S"
    /\ \E k \in 1..Len(url) : url[k] \in {"T", "C"}

\* lines 387-402: the URL one poll takes from the log, <<>> for none
ExtractUrl(text) ==
    LET first == ProviderPattern(text)
        second == AuthenticatedPattern(text)
        third == LastResortPattern(text)
        match == IF first # {} THEN first
                 ELSE IF second # {} THEN second ELSE third
    IN  IF match = {} THEN <<>>
        ELSE LET span == re_search(match)
                 url == SubSeq(text, span[1], span[2])
             IN  IF IsCloudflareUrl(url) THEN url ELSE <<>>

\* what a poll that read text hands back: the URL, or nothing yet
PollOutcome(text) ==
    IF ExtractUrl(text) # <<>>
    THEN [NoResult EXCEPT !.kind = "url", !.url = ExtractUrl(text)]
    ELSE NoResult

RECURSIVE LastChars(_, _)
\* text[-n:]: the whole tokens that fit, and how many characters of the
\* token before them
LastChars(text, n) ==
    IF text = <<>> THEN [tail |-> <<>>, cut |-> 0]
    ELSE LET last == text[Len(text)] IN
         IF Width(last) > n THEN [tail |-> <<>>, cut |-> n]
         ELSE LET rest == LastChars(SubSeq(text, 1, Len(text) - 1), n - Width(last))
              IN  [tail |-> Append(rest.tail, last), cut |-> rest.cut]

LogTailLong(text) == LastChars(text, 2 * tail_chars)

LogTail(text) == LastChars(text, tail_chars)

\* line 420: the failure message
FailureMessage(text) ==
    IF text = <<>>
    THEN [NoResult EXCEPT !.kind = "failure_no_log"]
    ELSE [NoResult EXCEPT !.kind = "failure",
                          !.tail = LogTail(text).tail, !.cut = LogTail(text).cut]

\* the tokens that can follow text: characters outside a run of non-blank
\* characters begun by https:// take part in no match, so the model writes
\* them as "_"; two adjacent stretches of one kind are one stretch
NextTok(text) ==
    LET last == IF text = <<>> THEN "_" ELSE text[Len(text)] IN
    {"S"}
      \cup (IF text # <<>> /\ last = "_" THEN {} ELSE {"_"})
      \cup (IF last = "_" THEN {} ELSE {"w", "T", "F", "C", "/"} \ ({last} \cap {"w", "/"}))

RECURSIVE Grown(_, _)
\* the logs that text can have grown into, n tokens at most
Grown(text, n) ==
    IF n <= Len(text) THEN {text}
    ELSE {text} \cup UNION {Grown(Append(text, t), n) : t \in NextTok(text)}

\* what a step of start_web_ssh_tunnel leaves alone
mvars == <<hvars, svars, pvars, fvars, ovars>>

MaxCalls == 3

pkill_nothing(processes) == processes

\* line 366: pkill -f cloudflared ends every cloudflared process
pkill(processes) == {}

Return(value) ==
    /\ result' = value
    /\ tpc' = "done"

\* what a container can hold of the two tools
ToolStates == [ttyd : BOOLEAN, cloudflared : {"none", "stub", "real"}]

ResolvesAlways(found) == TRUE

\* lines 348-354: which ttyd and which cloudflared both exit with 0
Resolves(found) == found.ttyd /\ found.cloudflared # "none"

\* lines 343-367: client and tool checks, ttyd, the old tunnel is killed.
\* The call has no log and no result of its own yet.
TunnelBegin ==
    /\ tpc \in {"idle", "done"}
    /\ calls < MaxCalls
    /\ calls' = calls + 1
    /\ poll' = 0
    /\ log' = <<>>
    /\ \/ /\ ~client
          /\ Return([NoResult EXCEPT !.kind = "no_client"])
          /\ UNCHANGED <<cloudflared, installed, ttyd_running>>
       \/ /\ client                     \* containers.get or an exec_run raises
          /\ Return([NoResult EXCEPT !.kind = "error"])
          /\ UNCHANGED <<cloudflared, installed, ttyd_running>>
       \/ /\ client
          /\ \E found \in ToolStates :
                /\ installed' = found
                /\ IF ~Resolves(found)    \* which ttyd / which cloudflared fails
                   THEN /\ Return([NoResult EXCEPT !.kind = "unavailable"])
                        /\ UNCHANGED <<cloudflared, ttyd_running>>
                   ELSE /\ ttyd_running' = TRUE   \* started unless pgrep finds it
                        /\ cloudflared' = pkill(cloudflared)
                        /\ tpc' = "launch"
                        /\ result' = NoResult
    /\ UNCHANGED mvars

\* line 374: the processes after nohup cloudflared tunnel ... &; the script of
\* line 240 prints its message and exits before the first poll
Launched(found, processes, call) ==
    IF found.cloudflared = "stub" THEN processes ELSE processes \cup {call}

\* /tmp/cloudflared.log as a poll can find it: what the real client has
\* written so far, or the one line of the script
LogsRead(found, text) ==
    IF found.cloudflared = "stub" THEN {<<"_">>} ELSE Grown(text, MaxFileLen)

\* lines 371-378: the new tunnel is started, log = ""
TunnelLaunch ==
    /\ tpc = "launch"
    /\ \/ /\ Return([NoResult EXCEPT !.kind = "error"])
          /\ UNCHANGED <<cloudflared, log, poll>>
       \/ /\ cloudflared' = Launched(installed, cloudflared, calls)
          /\ log' = <<>>
          /\ poll' = 0
          /\ tpc' = "poll"
          /\ UNCHANGED result
    /\ UNCHANGED <<calls, installed, ttyd_running, mvars>>

same_pass(i) == i

\* line 380: for i in range(max_attempts) goes on to the next i, from the
\* end of the body and from the continue of line 416 alike
next_pass(i) == i + 1

\* the loop goes round, or is over after tunnel_max_attempts passes
Continue(text) ==
    /\ poll' = next_pass(poll)
    /\ IF poll + 1 < tunnel_max_attempts
       THEN UNCHANGED <<tpc, result>>
       ELSE Return(FailureMessage(text))

\* lines 380-430: one pass of the polling loop
TunnelPoll ==
    /\ tpc = "poll"
    /\ \/ /\ log' = log                 \* reading the log raises: continue
          /\ Continue(log)
       \/ \E text \in LogsRead(installed, log) :
             /\ log' = text
             /\ IF PollOutcome(text).kind = "url"
                THEN Return(PollOutcome(text)) /\ UNCHANGED poll
                ELSE \/ /\ cloudflared # {}   \* pgrep finds a process
                        /\ Continue(text)
                     \/ Continue(text)  \* pgrep raises: continue
                     \/ /\ cloudflared = {}   \* break
                        /\ Return(FailureMessage(text))
                        /\ UNCHANGED poll
    /\ UNCHANGED <<cloudflared, calls, installed, ttyd_running, mvars>>

\* a cloudflared process ends on its own
CloudflaredDies ==
    /\ tpc = "poll"
    /\ \E process \in cloudflared : cloudflared' = cloudflared \ {process}
    /\ UNCHANGED <<tpc, poll, log, result, calls, installed, ttyd_running, mvars>>

NextTunnel == TunnelBegin \/ TunnelLaunch \/ TunnelPoll \/ CloudflaredDies

SpecTunnel == Init /\ [][NextTunnel]_vars

\* a call that has begun goes on: the sleeps end, and every exec_run call
\* returns or raises
SpecTunnelLive ==
    SpecTunnel /\ WF_vars(TunnelLaunch) /\ WF_vars(TunnelPoll)

\* one poll applied to every log of up to MaxLogLen tokens
ReadLog ==
    /\ Len(log) < MaxLogLen
    /\ \E t \in NextTok(log) :
          /\ log' = Append(log, t)
          /\ result' = PollOutcome(log')
    /\ UNCHANGED <<tpc, poll, cloudflared, calls, installed, ttyd_running, mvars>>

NextExtract == ReadLog

SpecExtract == Init /\ [][NextExtract]_vars

\* ------------- docker_handler.py: start_web_ssh_tunnel, two calls at once
\* Both calls work on the one container: pkill -f cloudflared reaches every
\* process, and every launch redirects into the one /tmp/cloudflared.log.
\* A log is written here by what it holds for the loop: the alive whose
\* tunnel URL has been printed into it.  No process ends on its own here.
OverlapReturn(c, value) ==
    /\ returned' = [returned EXCEPT ![c] = value]
    /\ tunnel_pc' = [tunnel_pc EXCEPT ![c] = "done"]

\* lines 343-367: the checks, then line 366 ends every cloudflared process
OverlapBegin(c) ==
    /\ tunnel_pc[c] = "idle"
    /\ \/ /\ OverlapReturn(c, [kind |-> "error", of |-> 0])
          /\ UNCHANGED alive
       \/ /\ alive' = pkill(alive)
          /\ tunnel_pc' = [tunnel_pc EXCEPT ![c] = "launch"]
          /\ UNCHANGED returned
    /\ UNCHANGED <<tunnel_i, logfile, hvars, uvars, svars, pvars, fvars>>

\* lines 371-375: sh -c 'nohup cloudflared ... > /tmp/cloudflared.log 2>&1 &'
\* starts the process of this call and empties the file
OverlapLaunch(c) ==
    /\ tunnel_pc[c] = "launch"
    /\ alive' = alive \cup {c}
    /\ logfile' = {}
    /\ tunnel_i' = [tunnel_i EXCEPT ![c] = 0]
    /\ tunnel_pc' = [tunnel_pc EXCEPT ![c] = "poll"]
    /\ UNCHANGED <<returned, hvars, uvars, svars, pvars, fvars>>

\* a running cloudflared prints the URL of its tunnel into the file
TunnelUrlPrinted ==
    /\ \E process \in alive \ logfile : logfile' = logfile \cup {process}
    /\ UNCHANGED <<tunnel_pc, tunnel_i, alive, returned, hvars, uvars, svars,
                   pvars, fvars>>

\* the loop of call c goes round, or is over after tunnel_max_attempts passes
OverlapContinue(c) ==
    /\ tunnel_i' = [tunnel_i EXCEPT ![c] = next_pass(@)]
    /\ IF tunnel_i[c] + 1 < tunnel_max_attempts
       THEN UNCHANGED <<tunnel_pc, returned>>
       ELSE OverlapReturn(c, [kind |-> "failure", of |-> 0])

\* lines 380-416: one pass of the loop: cat the file, search it for a URL,
\* else pgrep -f cloudflared
OverlapPoll(c) ==
    /\ tunnel_pc[c] = "poll"
    /\ IF logfile # {}
       THEN /\ \E process \in logfile :     \* re.search: the first URL in the file
                  OverlapReturn(c, [kind |-> "url", of |-> process])
            /\ UNCHANGED tunnel_i
       ELSE \/ OverlapContinue(c)           \* a process is found, or exec_run raises
            \/ /\ alive = {}             \* break
               /\ OverlapReturn(c, [kind |-> "failure", of |-> 0])
               /\ UNCHANGED tunnel_i
    /\ UNCHANGED <<alive, logfile, hvars, uvars, svars, pvars, fvars>>

NextOverlap ==
    \/ \E c \in TunnelCalls : OverlapBegin(c) \/ OverlapLaunch(c) \/ OverlapPoll(c)
    \/ TunnelUrlPrinted

SpecOverlap == Init /\ [][NextOverlap]_vars

\* ------------------------------------ bot.py: web_terminal, start_vm
\* the text holds the characters http: every https:// does, the ordinary
\* text "_" is taken to hold none, and a cut https:// has lost its h
ContainsHttp(text) == \E k \in 1..Len(text) : text[k] = "S"

\* bot.py lines 207-210 and 269-272: "http" in url decides between
\* Web Terminal Ready! and the failure answer. The fixed words of the messages
\* of lines 343, 350, 354, 420-428 hold no http; the text of the exception
\* of line 434 is not modelled.
TerminalAnswer(value) ==
    IF ContainsHttp(value.url) \/ ContainsHttp(value.tail) THEN "ready" ELSE "failed"

\* the handler answers for the call that has returned
ShowTerminal ==
    /\ tpc = "done"
    /\ shown' = TerminalAnswer(result)
    /\ tpc' = "idle"
    /\ UNCHANGED <<hvars, svars, pvars, ovars, poll, log, result, cloudflared, calls,
                   installed, ttyd_running>>

NextFront == NextTunnel \/ ShowTerminal

SpecFront == Init /\ [][NextFront]_vars

\* ------------------------------- docker_handler.py: get_container_stats
\* The counters of a sample are 0..MaxCounter or BigCounter.
MaxCounter == 2
BigCounter == 30000

CounterValues == (0..MaxCounter) \cup {BigCounter}

Samples ==
    [total_usage : CounterValues, pre_total_usage : CounterValues,
     system_cpu_usage : CounterValues, pre_system_cpu_usage : CounterValues,
     online_cpus : 1..2, memory_usage : {1}, memory_limit : 0..1]

\* round(num / den, 0) for den > 0, a tie going to the even neighbour
RoundHalfEven(num, den) ==
    LET q == num \div den
        r == num % den
    IN  IF 2 * r < den THEN q
        ELSE IF 2 * r > den THEN q + 1
        ELSE IF q % 2 = 0 THEN q ELSE q + 1

cpu_usage_one_cpu(cpu_delta, system_cpu_delta, number_cpus) ==
    IF system_cpu_delta > 0
    THEN RoundHalfEven(cpu_delta * 10000, system_cpu_delta)
    ELSE 0

\* lines 447 and 456: round(cpu_usage, 2), in hundredths of a percent
cpu_usage(cpu_delta, system_cpu_delta, number_cpus) ==
    IF system_cpu_delta > 0
    THEN RoundHalfEven(cpu_delta * number_cpus * 10000, system_cpu_delta)
    ELSE 0

\* lines 444-445
cpu_delta(smp) == smp.total_usage - smp.pre_total_usage
system_cpu_delta(smp) == smp.system_cpu_usage - smp.pre_system_cpu_usage

None == [kind |-> "None", cpu_percent |-> 0]

\* lines 438-463 for the sample smp; the division by a memory limit of 0
\* raises and ends in the handler of line 461
get_container_stats(cl, smp) ==
    IF ~cl THEN None
    ELSE IF smp.memory_limit = 0 THEN None
    ELSE [kind |-> "stats",
          cpu_percent |-> cpu_usage(cpu_delta(smp), system_cpu_delta(smp),
                                    smp.online_cpus)]

GetStats ==
    /\ \/ \E smp \in Samples :
             /\ sample' = smp
             /\ stats' = get_container_stats(client, smp)
       \/ /\ client                     \* containers.get or stats raises
          /\ sample' = NoSample
          /\ stats' = None
    /\ UNCHANGED <<hvars, uvars, pvars, fvars, ovars>>

NextStats == GetStats

SpecStats == Init /\ [][NextStats]_vars

\* ------------------------------------ plans and limits of a create
\* config_manager.py lines 84-90: the rows of table vm_plans
NumPlans == 4
MaxCpu == 4

RamValues == {"2g", "4g", "8g", "16g"}

get_vm_plan(plan_id) ==
    CASE plan_id = 1 -> [ram |-> "2g", cpu |-> 1]
      [] plan_id = 2 -> [ram |-> "4g", cpu |-> 2]
      [] plan_id = 3 -> [ram |-> "8g", cpu |-> 4]
      [] plan_id = 4 -> [ram |-> "16g", cpu |-> 4]

\* config_manager.py lines 180-186: plan 1 for a user without a row
get_user_plan(allowed, user_id) ==
    IF allowed[user_id] # 0 THEN allowed[user_id] ELSE 1

\* bot.py lines 314-323, /config_ram
ConfigRam ==
    /\ \E value \in RamValues : settings' = [settings EXCEPT !.default_ram = value]
    /\ UNCHANGED <<hvars, uvars, svars, fvars, ovars, allowed_users, applied>>

\* bot.py lines 324-336, /config_cpu
ConfigCpu ==
    /\ \E value \in 1..MaxCpu : settings' = [settings EXCEPT !.default_cpu = value]
    /\ UNCHANGED <<hvars, uvars, svars, fvars, ovars, allowed_users, applied>>

\* config_manager.py lines 158-165
AddAllowedUser ==
    /\ \E user_id \in Users, plan_id \in 1..NumPlans :
          allowed_users' = [allowed_users EXCEPT ![user_id] = plan_id]
    /\ UNCHANGED <<hvars, uvars, svars, fvars, ovars, settings, applied>>

\* config_manager.py lines 167-171
RemoveAllowedUser ==
    /\ \E user_id \in Users : allowed_users' = [allowed_users EXCEPT ![user_id] = 0]
    /\ UNCHANGED <<hvars, uvars, svars, fvars, ovars, settings, applied>>

\* bot.py lines 72-91 and docker_handler.py lines 88-95, as far as limits and
\* plan go: the limits handed to containers.run are the two settings, and
\* register_container is called without a plan_id, which leaves its default
CreateLimits ==
    /\ \E user_id \in Users :
          LET ram_limit == settings.default_ram
              cpu_limit == settings.default_cpu
              reg == register_container({}, user_id, 1, ContainerName(user_id),
                                        HostPort(1), "UP", PyInt(1))
          IN  applied' = [kind |-> "created", user_id |-> user_id,
                          assigned |-> get_user_plan(allowed_users, user_id),
                          mem_limit |-> ram_limit, cpus |-> cpu_limit,
                          plan_id |-> get_user_container(reg, user_id).plan_id]
    /\ UNCHANGED <<hvars, uvars, svars, fvars, ovars, settings, allowed_users>>

NextPlans == ConfigRam \/ ConfigCpu \/ AddAllowedUser \/ RemoveAllowedUser \/ CreateLimits

SpecPlans == Init /\ [][NextPlans]_vars

\* ---------------------------------------------------------------- claims
HasRow(reg, user_id) == \E r \in reg : r.user_id = user_id

NoneInFlight == \A s \in Slots : tasks[s] = Idle

\* this step dispatches command op of user u (Spec: one handler at a time)
Dispatched(op, u) ==
    /\ NoneInFlight
    /\ reply = NoReply
    /\ \/ tasks'[1].op = op /\ tasks'[1].caller = u /\ tasks'[1].target = u
       \/ reply'.op = op /\ reply'.caller = u /\ reply'.target = u

\* this step is taken by the handler in slot s
Moves(s) == tasks[s] # Idle /\ tasks'[s] # tasks[s]

Untouched == registry' = registry /\ runtime' = runtime

\* C1 as stated (refuted): a create for a user who has a registry row is
\* always rejected as AlreadyExists, with registry and runtime left alone.
C1_AsStated ==
    [][\A u \in Users : HasRow(registry, u) =>
          /\ Dispatched("create", u) =>
                /\ reply'.outcome \in {"none", "AlreadyExists"}
                /\ Untouched
          /\ \A s \in Slots :
                (Moves(s) /\ tasks[s].pc = "c_existing" /\ tasks[s].caller = u) =>
                    /\ reply'.outcome = "AlreadyExists"
                    /\ Untouched]_vars

\* C1 amended: a create for a user who has a registry row is rejected as
\* AlreadyExists, except that under maintenance mode a non-administrator is
\* rejected as MaintenanceMode first; either way no container is created or
\* removed and the registry is unchanged.
C1_Rejected ==
    [][\A u \in Users : HasRow(registry, u) =>
          /\ Dispatched("create", u) =>
                /\ IF maintenance_mode /\ u # ADMIN_ID
                   THEN reply'.outcome = "MaintenanceMode" /\ tasks' = tasks
                   ELSE reply' = NoReply /\ tasks'[1].pc = "c_existing"
                /\ Untouched
          /\ \A s \in Slots :
                (Moves(s) /\ tasks[s].pc = "c_existing" /\ tasks[s].caller = u) =>
                    /\ reply'.outcome = "AlreadyExists"
                    /\ tasks'[s] = Idle
                    /\ Untouched]_vars

C1_Witness ==
    /\ reply.op = "create"
    /\ reply.outcome = "AlreadyExists"
    /\ HasRow(registry, reply.caller)
    /\ runtime # {}

\* C2: under maintenance mode create and start of a non-administrator are
\* answered MaintenanceMode and change nothing, while status, exec, stop and
\* destroy are dispatched on the registry row alone, the same with the mode
\* on as with it off.
C2_MaintenanceGate ==
    [][\A u \in Users :
          /\ (maintenance_mode /\ u # ADMIN_ID
                /\ (Dispatched("create", u) \/ Dispatched("start", u))) =>
                /\ reply'.outcome = "MaintenanceMode"
                /\ tasks' = tasks
                /\ Untouched
          /\ \A op \in {"status", "exec", "stop", "destroy"} :
                Dispatched(op, u) =>
                    /\ Untouched
                    /\ IF HasRow(registry, u)
                       THEN /\ reply' = NoReply
                            /\ tasks'[1].op = op
                            /\ \E r \in registry :
                                  r.user_id = u /\ r.container_id = tasks'[1].cid
                       ELSE reply'.outcome = "NotFound" /\ tasks' = tasks
          /\ \A s \in Slots :
                (Moves(s) /\ tasks[s].op \in {"status", "exec", "stop", "destroy"}) =>
                    reply'.outcome # "MaintenanceMode"]_vars

C2_Witness ==
    /\ maintenance_mode
    /\ reply.op = "start"
    /\ reply.outcome = "MaintenanceMode"
    /\ reply.caller # ADMIN_ID
    /\ HasRow(registry, reply.caller)

\* C3: a destroy and a single-user force-destroy that found a row go on from
\* the removal to the deletion whatever the removal answered, and end with
\* no row left for the target user.
C3_EntryDeleted ==
    [][\A s \in Slots :
          (Moves(s) /\ tasks[s].op \in {"destroy", "force_destroy"}) =>
              /\ tasks[s].pc = "d_remove" => tasks'[s].pc = "d_delete"
              /\ tasks[s].pc = "d_delete" =>
                    /\ ~HasRow(registry', tasks[s].target)
                    /\ tasks'[s] = Idle
                    /\ reply'.outcome = "Destroyed"]_vars

C3_Witness ==
    /\ reply.op = "force_destroy"
    /\ reply.outcome = "Destroyed"
    /\ reply.detail = "removal_failed"
    /\ ~HasRow(registry, reply.target)

\* C4 as stated (the code differs): a destroy for a user without a registry
\* row changes nothing and is answered as a success.
C4_AsStated ==
    [][\A u \in Users :
          (Dispatched("destroy", u) /\ ~HasRow(registry, u)) =>
              /\ Untouched
              /\ reply'.outcome = "Destroyed"]_vars

\* the state part of C4: such a destroy changes nothing
C4_NoOp ==
    [][\A u \in Users :
          (Dispatched("destroy", u) /\ ~HasRow(registry, u)) =>
              /\ Untouched
              /\ tasks' = tasks]_vars

\* https://abc123.trycloudflare.com
TheUrl == <<"S", "w", "T">>

UrlAt(text, p) == p + 2 <= Len(text) /\ SubSeq(text, p, p + 2) = TheUrl

Returned(url) == result.kind = "url" /\ result.url = url

ProviderUrlBefore(text, p) ==
    \E a \in 1..(p - 1) : \E b \in (a + 2)..(p - 1) :
        /\ text[a] = "S"
        /\ \A k \in (a + 1)..(b - 1) : text[k] \in {"w", "T", "F", "C"}
        /\ text[b] \in {"T", "F", "C"}

IsSuffix(part, whole) ==
    /\ Len(part) <= Len(whole)
    /\ part = SubSeq(whole, Len(whole) - Len(part) + 1, Len(whole))

\* this step is a pass of the polling loop
PollPass == tpc = "poll" /\ (poll' # poll \/ tpc' # tpc)

\* C6: the loop makes at most tunnel_max_attempts passes; a pass that ends
\* the call without a URL ends it with the failure message, whose diagnostic
\* is not empty: the last tail_chars characters of the log, the whole log
\* when it is shorter, a fixed note when the log is empty; it is not a URL.
C6_NegotiationFailure ==
    [][PollPass =>
          /\ poll < tunnel_max_attempts
          /\ poll = tunnel_max_attempts - 1 => tpc' = "done"
          /\ (tpc' = "done" /\ ~(\E k \in 1..Len(log') : log'[k] = "S")) =>
                result'.kind # "url"
          /\ (tpc' = "done" /\ result'.kind # "url") =>
                /\ result'.url = <<>>
                /\ result'.kind \in {"failure", "failure_no_log"}
                /\ result'.kind = "failure_no_log" <=> log' = <<>>
                /\ result'.kind = "failure" =>
                      LET n == Chars(result'.tail) + result'.cut
                          m == Len(log') - Len(result'.tail)
                      IN  /\ n > 0
                          /\ n <= tail_chars
                          /\ n = IF Chars(log') < tail_chars THEN Chars(log')
                                 ELSE tail_chars
                          /\ IsSuffix(result'.tail, log')
                          /\ result'.cut > 0 =>
                                m >= 1 /\ result'.cut < Width(log'[m])]_vars

C6_Witness ==
    /\ tpc = "done"
    /\ poll = tunnel_max_attempts
    /\ result.kind = "failure"
    /\ result.cut > 0
    /\ Chars(log) > tail_chars

\* the rows still to be processed by the bulk destroy in slot s
RowsLeft(s) == {tasks[s].list[k] : k \in 1..Len(tasks[s].list)}

CountNow(s) == IF tasks'[s] = Idle THEN reply'.count ELSE tasks'[s].count

\* C7: the bulk destroy takes every row of the registry in turn; after each
\* removal, failed or not, it deletes that row and counts it, so that the
\* count it reports is the number of rows it deleted, and it ends with an
\* empty registry.
C7_DestroyAll ==
    [][\A s \in Slots : (Moves(s) /\ tasks[s].op = "force_destroy_all") =>
          /\ tasks[s].pc = "fa_list" =>
                /\ registry' = registry
                /\ CountNow(s) = 0
                /\ IF registry = {} THEN tasks'[s] = Idle
                   ELSE /\ tasks'[s].pc = "fa_remove"
                        /\ Len(tasks'[s].list) = Cardinality(registry)
                        /\ {tasks'[s].list[k] : k \in 1..Len(tasks'[s].list)} = registry
          /\ tasks[s].pc = "fa_remove" =>
                /\ registry' = registry
                /\ tasks'[s].pc = "fa_delete"
                /\ tasks'[s].list = tasks[s].list
                /\ tasks'[s].count = tasks[s].count
          /\ tasks[s].pc = "fa_delete" =>
                /\ registry' = registry \ {Head(tasks[s].list)}
                /\ Cardinality(registry') = Cardinality(registry) - 1
                /\ CountNow(s) = tasks[s].count + 1
                /\ IF Len(tasks[s].list) = 1 THEN tasks'[s] = Idle
                   ELSE tasks'[s].pc = "fa_remove" /\ tasks'[s].list = Tail(tasks[s].list)
          /\ tasks[s].pc \in {"fa_remove", "fa_delete"} => RowsLeft(s) = registry
          /\ tasks'[s] = Idle =>
                /\ reply'.outcome = "DestroyedAll"
                /\ registry' = {}]_vars

C7_Witness ==
    \E s \in Slots :
        /\ tasks[s].op = "force_destroy_all"
        /\ tasks[s].pc = "fa_delete"
        /\ ~tasks[s].success
        /\ tasks[s].count = 1
        /\ Len(tasks[s].list) = 1

\* this step is a check of the container state by the create in slot s
Checks(s) ==
    /\ tasks[s].pc = "cc_poll"
    /\ \/ tasks'[s].pc = "cc_poll" /\ tasks'[s].attempt = tasks[s].attempt + 1
       \/ tasks'[s].pc = "cc_bootstrap" /\ tasks'[s].seen

\* the create in slot s gives up: nothing is left of it
GivesUp(s, detail) ==
    /\ tasks'[s] = Idle
    /\ reply'.outcome = "Failed"
    /\ reply'.detail = detail
    /\ ~Exists(runtime', tasks[s].cid)
    /\ registry' = registry
    /\ ~HasRow(registry', tasks[s].caller)

\* C8 as stated (refuted): create checks the container state at most
\* max_attempts times, and when the checks are used up it force-removes the
\* container, reports a startup timeout and writes no registry row.
C8_AsStated ==
    [][\A s \in Slots : (Moves(s) /\ tasks[s].pc = "cc_poll") =>
          /\ tasks[s].attempt <= max_attempts
          /\ tasks[s].attempt < max_attempts => Checks(s)
          /\ tasks[s].attempt = max_attempts => GivesUp(s, "StartupTimeout")]_vars

\* C8 amended: create checks the container state at most max_attempts
\* times; when the checks are used up it force-removes the container and
\* reports a startup timeout, or, when the container is no longer known to
\* the runtime, reports the runtime's error; either way no container of
\* this create and no registry row is left.
C8_ReadinessCeiling ==
    [][\A s \in Slots : (Moves(s) /\ tasks[s].pc = "cc_poll") =>
          /\ tasks[s].attempt <= max_attempts
          /\ tasks[s].attempt < max_attempts => Checks(s)
          /\ tasks[s].attempt = max_attempts =>
                IF Exists(runtime, tasks[s].cid)
                THEN GivesUp(s, "StartupTimeout")
                ELSE GivesUp(s, "RuntimeError") /\ runtime' = runtime]_vars

C8_Witness ==
    /\ reply.op = "create"
    /\ reply.outcome = "Failed"
    /\ reply.detail = "StartupTimeout"
    /\ ~HasRow(registry, reply.caller)
    /\ nextId > 1
    /\ runtime = {}

\* C9: whatever the interleaving of the handlers, a user has at most one
\* registry row and at most one container.
C9_OnePerUser ==
    \A u \in Users :
        /\ Cardinality({r \in registry : r.user_id = u}) <= 1
        /\ Cardinality({c \in runtime : c.name = ContainerName(u)}) <= 1

C9_Witness ==
    \E s \in Slots : \E q \in Slots \ {s} :
        /\ tasks[s].op = "create" /\ tasks[q].op = "create"
        /\ tasks[s].caller = tasks[q].caller
        /\ tasks[s].pc = "c_tunnel"
        /\ tasks[q].pc = "c_tunnel"
        /\ Cardinality({r \in registry : r.user_id = tasks[s].caller}) = 1

\* the call of the handler in slot s that goes to the runtime, made for a
\* container that the runtime no longer knows
OnRemoved(s, pc) ==
    /\ Moves(s)
    /\ tasks[s].pc = pc
    /\ tasks[s].cid # 0
    /\ ~Exists(runtime, tasks[s].cid)

Row(reg, u) == CHOOSE r \in reg : r.user_id = u

\* C11: while a user has a registry row its container_id stays the same,
\* whatever command runs; a row goes away only in the delete step of a
\* destroy; a row comes in only in the register step of a create, for a user
\* who has none, so that no create writes over a row.
C11_ContainerIdStable ==
    [][/\ \A u \in Users :
             /\ (HasRow(registry, u) /\ HasRow(registry', u)) =>
                   Row(registry', u).container_id = Row(registry, u).container_id
             /\ (HasRow(registry, u) /\ ~HasRow(registry', u)) =>
                   \E s \in Slots :
                      /\ Moves(s)
                      /\ tasks[s].op \in {"destroy", "force_destroy", "force_destroy_all"}
                      /\ tasks[s].pc \in {"d_delete", "fa_delete"}
             /\ (~HasRow(registry, u) /\ HasRow(registry', u)) =>
                   \E s \in Slots :
                      /\ Moves(s)
                      /\ tasks[s].op = "create" /\ tasks[s].pc = "c_register"
                      /\ tasks[s].caller = u
                      /\ Row(registry', u).container_id = tasks[s].cid
       /\ \A s \in Slots :
             /\ (Moves(s) /\ tasks[s].pc = "c_register") =>
                   ~HasRow(registry, tasks[s].caller)
             /\ (Moves(s) /\ tasks[s].op \in {"start", "stop", "force_stop", "status",
                                              "exec", "web_terminal", "maintenance"}) =>
                   /\ {r.user_id : r \in registry'} = {r.user_id : r \in registry}
                   /\ \A r \in registry' :
                         r.container_id = Row(registry, r.user_id).container_id]_vars

\* a start went through for a user whose row carries the second container
C11_Witness ==
    /\ reply.op = "start"
    /\ reply.outcome = "Started"
    /\ HasRow(registry, reply.caller)
    /\ Row(registry, reply.caller).container_id = 2
    /\ Row(registry, reply.caller).status = "RUNNING"

\* the container can give a tunnel: it runs and holds both tools
TerminalCapable(cl, rt, id) ==
    /\ cl
    /\ Exists(rt, id)
    /\ ById(rt, id).status = "running"
    /\ ById(rt, id).ttyd
    /\ ById(rt, id).cloudflared = "real"

Running(rt, id) == Exists(rt, id) /\ ById(rt, id).status = "running"

\* C13: however the tool installation of a running container ends, with
\* nothing installed included, create keeps the container, goes on to read
\* the port and registers the row; exec on a running container gives the
\* command's output whatever tools the container holds.
C13_BootstrapNonFatal ==
    [][\A s \in Slots :
          /\ (Moves(s) /\ tasks[s].pc = "cc_bootstrap"
                /\ Running(runtime, tasks[s].cid)) =>
                /\ tasks'[s].pc = "c_register"
                /\ tasks'[s].cid = tasks[s].cid
                /\ reply' = NoReply
                /\ registry' = registry
                /\ {c.id : c \in runtime'} = {c.id : c \in runtime}
                /\ Running(runtime', tasks[s].cid)
                /\ \A c \in runtime : c.id # tasks[s].cid => c \in runtime'
          /\ (Moves(s) /\ tasks[s].pc = "c_register") =>
                /\ runtime' = runtime
                /\ HasRow(registry', tasks[s].caller)
                /\ Row(registry', tasks[s].caller).container_id = tasks[s].cid
                /\ tasks'[s].pc = "c_tunnel"
          /\ (Moves(s) /\ tasks[s].pc = "e_exec" /\ client
                /\ Running(runtime, tasks[s].cid)) =>
                /\ reply'.outcome = "Output"
                /\ reply'.detail \in CommandOutputs
                /\ Untouched]_vars

\* exec gave output in a registered container in which the installation
\* left nothing
C13_Witness ==
    /\ reply.op = "exec"
    /\ reply.outcome = "Output"
    /\ reply.detail = "output"
    /\ HasRow(registry, reply.caller)
    /\ Running(runtime, Row(registry, reply.caller).container_id)
    /\ ~ById(runtime, Row(registry, reply.caller).container_id).ttyd
    /\ ById(runtime, Row(registry, reply.caller).container_id).cloudflared = "none"

\* C14 as stated (the code differs): once a readiness check has found the
\* container running and the password steps have run on it, however they
\* ended, create does not remove the container and does not end in the
\* startup timeout.
C14_AsStated ==
    [][\A s \in Slots : (Moves(s) /\ tasks[s].op = "create" /\ tasks[s].seen) =>
          /\ Exists(runtime, tasks[s].cid) => Exists(runtime', tasks[s].cid)
          /\ ~(reply'.outcome = "Failed" /\ reply'.detail = "StartupTimeout")]_vars

\* the part of C14 that the code keeps: the direct step runs only after the
\* hash step failed, and a pass in which no exec call of the direct step
\* raised goes on to the tool installation with the container untouched
C14_ExitCodesTolerated ==
    [][/\ \A o \in CredentialSteps :
             /\ DirectAttempted(o) <=> o.hash \in {"fail", "raise"}
             /\ PollRetries(o) <=> (o.hash # "ok" /\ o.direct = "raise")
       /\ \A s \in Slots :
             (Moves(s) /\ tasks[s].pc = "cc_poll"
                /\ tasks[s].attempt < max_attempts) => runtime' = runtime]_vars

C16_OneTunnelClient ==
    [][/\ (tpc # "launch" /\ tpc' = "launch") => cloudflared' = {}
       /\ (tpc = "launch" /\ tpc' = "poll") =>
             /\ cloudflared = {}
             /\ cloudflared' \subseteq {calls}
             /\ installed.cloudflared = "real" => cloudflared' = {calls}
       /\ ~(tpc = "launch" /\ tpc' = "poll") => cloudflared' \subseteq cloudflared
       /\ Cardinality(cloudflared') <= 1
       /\ tpc' \in {"launch", "poll"} => cloudflared' \subseteq {calls'}
       /\ (tpc' = "done" /\ result'.kind \in {"url", "failure", "failure_no_log"}) =>
             cloudflared' \subseteq {calls'}]_vars

\* the last of MaxCalls calls returned a URL and its process is the one alive
C16_Witness ==
    /\ calls = MaxCalls
    /\ tpc = "done"
    /\ result.kind = "url"
    /\ cloudflared = {MaxCalls}

\* C17: a call makes at most tunnel_max_attempts passes of its loop, the
\* passes in which reading the log or looking for the process raised
\* included, and every call that has begun returns: a URL, or a failure.
C17_Terminates ==
    /\ [][PollPass => poll < tunnel_max_attempts]_vars
    /\ [](poll <= tunnel_max_attempts)
    /\ [](tpc = "done" => result.kind \in {"url", "failure", "failure_no_log",
                                           "error", "unavailable", "no_client"})
    /\ (tpc \in {"launch", "poll"}) ~> (tpc = "done")

\* sixty passes, none of which read a character of the log
C17_Witness ==
    /\ tpc = "done"
    /\ poll = tunnel_max_attempts
    /\ log = <<>>
    /\ result.kind = "failure_no_log"
    /\ cloudflared # {}

\* a sample whose counters did not go back and in which the container used
\* no more CPU time than the whole system
Plausible(smp) ==
    /\ cpu_delta(smp) >= 0
    /\ system_cpu_delta(smp) >= 0
    /\ cpu_delta(smp) <= system_cpu_delta(smp)

FieldValues ==
    {PyInt(n) : n \in 0..MaxContainers}
        \cup {PyStr(ToDigits(n)) : n \in 0..MaxContainers}
        \cup {PyStr(<<"U", "P">>)}

\* C19: register_container followed by get_user_container for the same user
\* returns exactly the container_id, ssh_port, status and plan_id that were
\* passed; in the create flow the values passed are the ones that
\* create_container returned.
C19_AsStated ==
    [][\A s \in Slots :
          (Moves(s) /\ tasks[s].op = "create" /\ tasks[s].pc = "c_register") =>
             LET got == get_user_container(registry', tasks[s].caller)
             IN  /\ got.container_id = tasks[s].cid
                 /\ got.ssh_port = HostPort(tasks[s].cid)
                 /\ got.status = "UP"
                 /\ got.plan_id = PyInt(1)]_vars

\* C19, what the store does: the row holds container_id and status as passed
\* and ssh_port and plan_id as the INTEGER columns keep them, so that an
\* integer comes back as passed, also over an existing row, and the port text
\* of create_container comes back as the integer it spells.
C19_StoredValues ==
    [][/\ \A u \in Users, v \in FieldValues :
             LET got == get_user_container(
                            register_container(registry, u, 1, ContainerName(u),
                                               v, "EXITED", v), u)
             IN  /\ got.container_id = 1
                 /\ got.status = "EXITED"
                 /\ v.type = "int" => (got.ssh_port = v /\ got.plan_id = v)
                 /\ (v.type = "str" /\ LooksLikeInteger(v.text)) =>
                        got.ssh_port = PyInt(ParseInt(v.text))
                 /\ (v.type = "str" /\ ~LooksLikeInteger(v.text)) =>
                        got.ssh_port = v
       /\ \A s \in Slots :
             (Moves(s) /\ tasks[s].op = "create" /\ tasks[s].pc = "c_register") =>
                LET got == get_user_container(registry', tasks[s].caller)
                IN  /\ got.container_id = tasks[s].cid
                    /\ got.ssh_port = PyInt(tasks[s].cid)
                    /\ got.status = "UP"
                    /\ got.plan_id = PyInt(1)]_vars

\* C20: with no connection to the runtime, create, start, stop, destroy,
\* exec, status and open_terminal end in the runtime-unavailable outcome and
\* leave the runtime alone, and that outcome differs from every normal result
\* of the operation, which the same call gives when there is a connection and
\* the container is there.
C20_AsStated ==
    [][\A s \in Slots : Moves(s) =>
          /\ (~client /\ tasks[s].pc \in {"cc_run", "sv_start", "st_stop", "d_remove",
                                         "e_exec", "s_inspect", "w_tunnel"}) =>
                runtime' = runtime
          /\ (~client /\ tasks[s].pc = "cc_run") =>
                reply'.outcome = "Failed" /\ reply'.detail = "ClientNotInitialized"
          /\ (~client /\ tasks[s].pc \in {"sv_start", "st_stop"}) =>
                reply'.outcome = "Failed"
          /\ (~client /\ tasks[s].pc = "d_remove") => ~tasks'[s].success
          /\ (~client /\ tasks[s].pc = "e_exec") =>
                reply'.detail = "ClientNotInitialized"
          /\ (~client /\ tasks[s].pc = "s_inspect") =>
                reply'.detail = "UNKNOWN" \/ tasks'[s].status = "UNKNOWN"
          /\ (~client /\ tasks[s].pc = "w_tunnel") => reply'.detail = "no_client"
          /\ (client /\ tasks[s].pc = "cc_run") =>
                ~(reply'.outcome = "Failed" /\ reply'.detail = "ClientNotInitialized")
          /\ (client /\ tasks[s].pc \in {"sv_start", "st_stop"}
                /\ Exists(runtime, tasks[s].cid)) => reply'.outcome # "Failed"
          /\ (client /\ tasks[s].pc = "d_remove" /\ Exists(runtime, tasks[s].cid)) =>
                tasks'[s].success
          /\ (client /\ tasks[s].pc = "e_exec" /\ Running(runtime, tasks[s].cid)) =>
                reply'.detail # "ClientNotInitialized"
          /\ (client /\ tasks[s].pc = "s_inspect") =>
                reply'.detail # "UNKNOWN" /\ tasks'[s].status # "UNKNOWN"
          /\ (client /\ tasks[s].pc = "w_tunnel") => reply'.detail # "no_client"]_vars

\* C20, what holds: the same with exec left out of the second half: the text
\* that exec returns with no connection is a text that a command can print.
C20_ShortCircuit ==
    [][\A s \in Slots : Moves(s) =>
          /\ (~client /\ tasks[s].pc \in {"cc_run", "sv_start", "st_stop", "d_remove",
                                         "e_exec", "s_inspect", "w_tunnel"}) =>
                runtime' = runtime
          /\ (~client /\ tasks[s].pc = "cc_run") =>
                reply'.outcome = "Failed" /\ reply'.detail = "ClientNotInitialized"
          /\ (~client /\ tasks[s].pc \in {"sv_start", "st_stop"}) =>
                reply'.outcome = "Failed"
          /\ (~client /\ tasks[s].pc = "d_remove") => ~tasks'[s].success
          /\ (~client /\ tasks[s].pc = "e_exec") =>
                reply'.detail = "ClientNotInitialized"
          /\ (~client /\ tasks[s].pc = "s_inspect") =>
                reply'.detail = "UNKNOWN" \/ tasks'[s].status = "UNKNOWN"
          /\ (~client /\ tasks[s].pc = "w_tunnel") => reply'.detail = "no_client"
          /\ (client /\ tasks[s].pc = "cc_run") =>
                ~(reply'.outcome = "Failed" /\ reply'.detail = "ClientNotInitialized")
          /\ (client /\ tasks[s].pc \in {"sv_start", "st_stop"}
                /\ Exists(runtime, tasks[s].cid)) => reply'.outcome # "Failed"
          /\ (client /\ tasks[s].pc = "d_remove" /\ Exists(runtime, tasks[s].cid)) =>
                tasks'[s].success
          /\ (client /\ tasks[s].pc = "s_inspect") =>
                reply'.detail # "UNKNOWN" /\ tasks'[s].status # "UNKNOWN"
          /\ (client /\ tasks[s].pc = "w_tunnel") => reply'.detail # "no_client"]_vars

\* C20, stats: get_container_stats gives None when there is no connection
C20_StatsNone == (stats.kind # "none" /\ ~client) => stats = None

\* the registry entry and the containers of user u
EntryOf(reg, u) == {r \in reg : r.user_id = u}

ContainersOf(rt, u) == {c \in rt : c.name = ContainerName(u)}

\* C21: a step of a command for one user (create, start, stop, destroy, exec,
\* status, web terminal, and the administrator's stop and destroy of one
\* user), whether it ends well or not, leaves the registry entry and the
\* containers of every other user as they are; dispatching a command changes
\* nothing; only maintenance and the destroy of all go over several users.
C21_Frame ==
    [][\A s \in Slots :
          /\ (Moves(s) /\ tasks[s].op \notin {"maintenance", "force_destroy_all"}) =>
                \A b \in Users \ {tasks[s].target} :
                   /\ EntryOf(registry', b) = EntryOf(registry, b)
                   /\ ContainersOf(runtime', b) = ContainersOf(runtime, b)
          /\ (tasks[s] = Idle /\ tasks'[s] # Idle) => Untouched]_vars

\* a start of one user failed while another user holds an entry and a
\* running container
C21_Witness ==
    /\ reply.op = "start"
    /\ reply.outcome = "Failed"
    /\ \E b \in Users \ {reply.caller} :
          /\ EntryOf(registry, b) # {}
          /\ \E c \in ContainersOf(runtime, b) : c.status = "running"

\* C22: the RAM and CPU limits applied to the new container and the plan_id
\* recorded in the user's registry entry are those of the plan assigned to
\* the creating user.
C22_AsStated ==
    applied.kind = "created" =>
        /\ applied.mem_limit = get_vm_plan(applied.assigned).ram
        /\ applied.cpus = get_vm_plan(applied.assigned).cpu
        /\ applied.plan_id = PyInt(applied.assigned)

\* C22, what the code does: the limits are the settings default_ram and
\* default_cpu, and the plan_id recorded is 1
C22_SettingsApplied ==
    [][applied' # applied =>
          /\ applied'.mem_limit = settings.default_ram
          /\ applied'.cpus = settings.default_cpu
          /\ applied'.plan_id = PyInt(1)]_vars

\* the create in slot s is provisioning: polling, installing the tools or
\* negotiating the tunnel
Provisioning(s) ==
    /\ tasks[s].op = "create"
    /\ tasks[s].pc \in {"cc_poll", "cc_bootstrap", "c_tunnel"}

\* C23: while a create of one user is provisioning, a status query of another
\* user can be dispatched at once: it does not wait for the create to end.
C23_AsStated ==
    \A s \in Slots : Provisioning(s) =>
        \A b \in Users \ {tasks[s].caller} :
            \E q \in Slots : ENABLED StatusBegin(FALSE, q, b)

\* C23, were updates handled concurrently: with a slot free and the latest
\* answer sent, the status query is dispatched while the create is provisioning
C23_WithConcurrentUpdates ==
    \A s \in Slots :
        (Provisioning(s) /\ reply = NoReply /\ started < MaxStarted
            /\ \E q \in Slots : tasks[q] = Idle) =>
            \A b \in Users \ {tasks[s].caller} :
                \E q \in Slots : ENABLED StatusBegin(TRUE, q, b)

\* C24: a poll that returns no URL and finds the tunnel client gone ends the
\* polling at that poll, with the failure message that carries the log read
\* so far.
C24_AsStated ==
    [][(tpc = "poll" /\ cloudflared = {} /\ <<TunnelPoll>>_vars) =>
          /\ tpc' = "done"
          /\ result'.kind = "url" \/ (result' = FailureMessage(log') /\ poll' = poll)]_vars

\* C24, what the code does: such a poll ends the polling with the failure
\* message when both exec_run calls return; when one raises, the pass is
\* given up and the loop goes on, up to the ceiling; a poll that finds the
\* tunnel client alive never ends the polling before the ceiling without a URL.
C24_EarlyExit ==
    [][(tpc = "poll" /\ <<TunnelPoll>>_vars /\ result'.kind # "url") =>
          \/ /\ cloudflared = {}
             /\ tpc' = "done" /\ result' = FailureMessage(log') /\ poll' = poll
          \/ /\ poll' = poll + 1
             /\ IF poll' < tunnel_max_attempts
                THEN tpc' = "poll" /\ result' = result
                ELSE tpc' = "done" /\ result' = FailureMessage(log')]_vars

\* one of the two binaries is not in the container
Missing(found) == ~found.ttyd \/ found.cloudflared = "none"

\* C25: a call of start_web_ssh_tunnel that finds ttyd or cloudflared not
\* resolving returns the not-available message at once: it starts no ttyd,
\* kills and starts no cloudflared and reads no log; and that message is
\* returned in no other case.
C25_CapabilityError ==
    [][(<<TunnelBegin>>_vars /\ result'.kind \notin {"no_client", "error"}) =>
          /\ Missing(installed') =>
                /\ result'.kind = "unavailable"
                /\ tpc' = "done"
                /\ ttyd_running' = ttyd_running
                /\ cloudflared' = cloudflared
                /\ log' = <<>> /\ poll' = 0
          /\ ~Missing(installed') => result'.kind # "unavailable"]_vars

\* the call found cloudflared missing while ttyd and the tunnel client of an
\* earlier call were running, and left them running
C25_Witness ==
    /\ tpc = "done"
    /\ result.kind = "unavailable"
    /\ installed.ttyd /\ installed.cloudflared = "none"
    /\ ttyd_running
    /\ cloudflared # {}

\* the host of an https URL: what stands between https:// and the first
\* character outside [\w.-], read as the slash that begins the path
HostOf(url) ==
    LET stops == {k \in 2..Len(url) : url[k] \notin HostChars}
        end == IF stops = {} THEN Len(url) ELSE Min(stops) - 1
    IN  SubSeq(url, 2, end)

UnderProvider(url) ==
    /\ url # <<>>
    /\ url[1] = "S"
    /\ HostOf(url) # <<>>
    /\ HostOf(url)[Len(HostOf(url))] \in Provider

\* C26: a URL that a poll returns begins with https:// and its host is one
\* of the provider's domains or under one; an https URL of another host in
\* the log is not returned (URLs without a host are left aside).
C26_AsStated ==
    (result.kind = "url" /\ HostOf(result.url) # <<>>) => UnderProvider(result.url)

\* C26, what the code checks: the value returned begins with https://, holds
\* no blank and holds the word cloudflare somewhere, in the host or after it
C26_HoldsCloudflare ==
    result.kind = "url" =>
        /\ result.url[1] = "S"
        /\ \A k \in 1..Len(result.url) : result.url[k] # "_"
        /\ \E k \in 2..Len(result.url) : result.url[k] \in {"T", "C"}

\* C27: when the tool installation of a running container is over, the
\* container holds the real cloudflared or the script that stands in for it,
\* whatever step failed before: cloudflared resolves.
C27_AsStated ==
    [][\A s \in Slots :
          (Moves(s) /\ tasks[s].pc = "cc_bootstrap" /\ Running(runtime, tasks[s].cid)) =>
             ById(runtime', tasks[s].cid).cloudflared # "none"]_vars

\* C27, what the code does: an installation that is not left through the
\* handler of line 265 leaves the real cloudflared or the script
C27_StubUnlessRaised ==
    \A e \in BootstrapEnds : ~e.raised => e.tools.cloudflared # "none"

\* C28: when maintenance ON has sent its last answer and no stop call it made
\* failed (no row is left with status RUNNING), no registered container is
\* still running, whatever status its row held, UP after create included.
C28_AsStated ==
    [][\A s \in Slots :
          (/\ tasks[s].op = "maintenance" /\ tasks'[s] = Idle
           /\ reply'.outcome = "MaintenanceOn"
           /\ \A r \in registry' : r.status # "RUNNING") =>
             \A r \in registry' : ~Running(runtime', r.container_id)]_vars

\* C28, what the code does: the rows the bulk stop marks EXITED are those of
\* containers it has just stopped
C28_MarkedRowsStopped ==
    [][\A s \in Slots :
          (tasks[s].pc = "m_update" /\ Moves(s)) =>
             /\ ~Running(runtime', Head(tasks[s].list).container_id)
             /\ Head(tasks[s].list).status = "RUNNING"]_vars

\* the stop call for row c fails: no client, or no such container
StopFails(c) == ~client \/ ~Exists(runtime, c.container_id)

\* the bulk stop of slot s goes on with the rows after the current one
ContinuesAfterHead(s) ==
    LET rest == SkipNotRunning(Tail(tasks[s].list)) IN
    IF rest = <<>>
    THEN tasks'[s] = Idle /\ reply'.outcome = "MaintenanceOn"
    ELSE tasks'[s].pc = "m_stop" /\ tasks'[s].list = rest

\* C29: the bulk stop of maintenance ON takes the rows one after another. A
\* stop that fails leaves the registry as it is and the loop goes on with the
\* rows that follow; a stop that succeeds is followed by the row's status
\* becoming EXITED, all other rows unchanged, and the loop goes on as well.
C29_BatchContinues ==
    [][\A s \in Slots :
          (tasks[s].op = "maintenance" /\ Moves(s)) =>
             LET c == Head(tasks[s].list) IN
             CASE tasks[s].pc = "m_stop" /\ StopFails(c) ->
                     registry' = registry /\ ContinuesAfterHead(s)
               [] tasks[s].pc = "m_stop" /\ ~StopFails(c) ->
                     /\ registry' = registry
                     /\ tasks'[s] = [tasks[s] EXCEPT !.pc = "m_update"]
               [] tasks[s].pc = "m_update" ->
                     /\ \A r \in registry :
                           IF r.user_id = c.user_id
                           THEN [r EXCEPT !.status = "EXITED"] \in registry'
                           ELSE r \in registry'
                     /\ \A r \in registry' : r.user_id = c.user_id => r.status = "EXITED"
                     /\ ContinuesAfterHead(s)
               [] OTHER -> TRUE]_vars

\* a bulk stop has ended in which the stop of the first row failed and the
\* stop of the row after it succeeded
C29_Witness ==
    /\ reply.op = "maintenance" /\ reply.outcome = "MaintenanceOn" /\ reply.count = 1
    /\ \E r1, r2 \in registry :
          /\ r1.user_id < r2.user_id
          /\ r1.status = "RUNNING" /\ r2.status = "EXITED"
          /\ ~Exists(runtime, r1.container_id)

C30_ReadyWhenHttp ==
    [][<<ShowTerminal>>_vars =>
          /\ result.kind = "url" => shown' = "ready"
          /\ (result.kind # "url" /\ ~ContainsHttp(result.tail)) => shown' = "failed"]_vars

\* the create of slot s removes its own container at this step
RemovesOwn(s) ==
    /\ Moves(s) /\ tasks[s].op = "create"
    /\ Exists(runtime, tasks[s].cid) /\ ~Exists(runtime', tasks[s].cid)

\* C31: the startup-timeout path of create removes the container only when
\* no readiness check saw it running; a container that a check saw running
\* is not removed by its create, a raising password step included.
C31_AsStated ==
    [][\A s \in Slots : RemovesOwn(s) => ~tasks[s].seen]_vars

\* C31, what the code does: create removes its container only at the end of
\* the loop, with the attempts used up, and answers with the startup timeout
C31_RemovedAtTimeoutOnly ==
    [][\A s \in Slots : RemovesOwn(s) =>
          /\ tasks[s].pc = "cc_poll" /\ tasks[s].attempt = max_attempts
          /\ reply'.outcome = "Failed" /\ reply'.detail = "StartupTimeout"]_vars

\* another create for the same user is in flight in slot q and holds a
\* container
RivalCreate(s, q) ==
    /\ q # s
    /\ tasks[q].op = "create" /\ tasks[q].caller = tasks[s].caller
    /\ Exists(runtime, tasks[q].cid)

C32_CleanupRemovesRival ==
    [][\A s \in Slots : (Moves(s) /\ tasks[s].op = "create") =>
          \A q \in Slots : (RivalCreate(s, q) /\ ~Exists(runtime', tasks[q].cid)) =>
             /\ tasks[s].pc = "cc_run"
             /\ ById(runtime, tasks[q].cid).name = ContainerName(tasks[s].caller)]_vars

\* no handler is in flight
Quiet == \A s \in Slots : tasks[s] = Idle

\* container c of the runtime is the one that the row of its user names
Referenced(c) ==
    \E r \in registry : r.user_id = c.name /\ r.container_id = c.id

C33_RowsNameOwnContainer ==
    \A r \in registry :
       /\ \A c \in runtime : c.id = r.container_id => c.name = ContainerName(r.user_id)
       /\ \A q \in registry : q.container_id = r.container_id => q = r

\* call c hands back a URL at this step
ReturnsUrl(c) == tunnel_pc[c] = "poll" /\ tunnel_pc'[c] = "done" /\ returned'[c].kind = "url"

C34_AloneOwnUrl ==
    [][\A c \in TunnelCalls :
          (ReturnsUrl(c) /\ \A q \in TunnelCalls \ {c} : tunnel_pc[q] = "idle") =>
             /\ returned'[c].of = c
             /\ c \in alive']_vars

\* maintenance mode is on and the operation that switched it on is over
MaintenanceOnDone ==
    maintenance_mode /\ \A s \in Slots : tasks[s].op # "maintenance"

\* some container of a user other than the administrator runs after the
\* step and did not run before it
UserSandboxStarts ==
    \E c \in runtime' :
       /\ c.name # ContainerName(ADMIN_ID) /\ c.status = "running"
       /\ ~Running(runtime, c.id)

C35_GateAtDispatch ==
    [][\A u \in Users \ {ADMIN_ID} :
          (maintenance_mode /\ (Dispatched("create", u) \/ Dispatched("start", u))) =>
             /\ reply'.outcome = "MaintenanceMode"
             /\ runtime' = runtime]_vars

====
